---- MODULE Spec2Model ----
(***************************************************************************)
(* ToolFetcherAlgorithm (evaluator/algorithms/tool_fetcher_algorithm.py):  *)
(* the single tool_hub entry point, its search and call handlers, the      *)
(* active-tool list and the session life cycle, as a state machine.        *)
(*                                                                         *)
(* Text is a sequence of one-character strings, so that strip(), lower(),  *)
(* substring containment and slicing are computed, not assumed.            *)
(***************************************************************************)
EXTENDS Integers, Sequences, FiniteSets, TLC

VARIABLES
    settings,       \* self._settings (the options this model reads)
    all_tools,      \* self._all_tools: None or the list given to set_up
    tool_map,       \* self._tool_map: None or name -> descriptor
    active_tools,   \* self._active_tools: None or list of descriptors
    vector_store,   \* self._vector_store: None or the index handle
    pc,             \* per query: position of its process_query execution
    surfaced,       \* per query: names its own hub requests surfaced
    returned,       \* per query: the list process_query returned, or None
    last            \* the hub request just handled and its response, until
                    \* the agent loop has taken the response

vars == <<settings, all_tools, tool_map, active_tools, vector_store,
          pc, surfaced, returned, last>>

\* Python's Optional: None, or a value
None == [some |-> FALSE]
Some(x) == [some |-> TRUE, v |-> x]

\* ---------------------------------------------------------------- bounds
\* index hits returned by one similarity query (never more than the limit)
MaxHits == 2

\* ------------------------------------------------------ program constants
DEFAULT_SEARCH_K == 8
DEFAULT_MAX_RESULT_CHARS == 4000
MIN_K == 1
MAX_K == 50
NAME_MATCH_WEIGHT == 2
DESC_MATCH_WEIGHT == 1

\* ------------------------------------------------------------------ text
Range(s) == {s[i] : i \in 1..Len(s)}

Min(a, b) == IF a <= b THEN a ELSE b
Max(a, b) == IF a >= b THEN a ELSE b

\* str.lower() on one character
LowerChar(c) ==
    CASE c = "A" -> "a" [] c = "B" -> "b" [] c = "C" -> "c" [] c = "D" -> "d"
      [] c = "E" -> "e" [] c = "F" -> "f" [] c = "G" -> "g" [] c = "H" -> "h"
      [] c = "I" -> "i" [] c = "J" -> "j" [] c = "K" -> "k" [] c = "L" -> "l"
      [] c = "M" -> "m" [] c = "N" -> "n" [] c = "O" -> "o" [] c = "P" -> "p"
      [] c = "Q" -> "q" [] c = "R" -> "r" [] c = "S" -> "s" [] c = "T" -> "t"
      [] c = "U" -> "u" [] c = "V" -> "v" [] c = "W" -> "w" [] c = "X" -> "x"
      [] c = "Y" -> "y" [] c = "Z" -> "z"
      [] OTHER -> c

\* str.lower()
Lower(s) == [i \in 1..Len(s) |-> LowerChar(s[i])]

\* str.strip(): drop leading and trailing whitespace
RECURSIVE LStrip(_)
LStrip(s) == IF s # <<>> /\ s[1] = " " THEN LStrip(Tail(s)) ELSE s

RECURSIVE RStrip(_)
RStrip(s) ==
    IF s # <<>> /\ s[Len(s)] = " " THEN RStrip(SubSeq(s, 1, Len(s) - 1)) ELSE s

Strip(s) == RStrip(LStrip(s))

\* Python's `q in s` on strings: q occurs as a contiguous substring of s
Contains(s, q) ==
    \E i \in 0..(Len(s) - Len(q)) : SubSeq(s, i + 1, i + Len(q)) = q

\* Python's s[:n] for n >= 0
Slice(s, n) == SubSeq(s, 1, Min(n, Len(s)))

\* ------------------------------------------------------ tool descriptors
\* BaseTool objects: name and description (the invocation outcome is drawn
\* when the tool is invoked)
Tool(n, d) == [name |-> n, description |-> d]

nWeb  == <<"W", "e", "b">>
nRead == <<"R", "e", "a", "d">>
nMail == <<"M", "a", "i", "l">>
nZed  == <<"Z", "e", "d">>
nOld  == <<"O", "l", "d">>

tWeb  == Tool(nWeb,  <<"g", "e", "t", " ", "p", "a", "g", "e">>)
tRead == Tool(nRead, <<"r", "e", "a", "d", " ", "W", "e", "b", " ", "f", "i", "l", "e">>)
tMail == Tool(nMail, <<"s", "e", "n", "d", " ", "m", "a", "i", "l">>)
\* a second descriptor carrying the name of tWeb
tWeb2 == Tool(nWeb,  <<"c", "a", "c", "h", "e">>)

\* the tool lists a collaborator may hand to set_up
ToolLists == { <<>>, <<tRead, tWeb, tMail>>, <<tWeb, tRead, tWeb2>> }

\* the settings dictionaries the algorithm may be constructed with; an
\* option left out of the dictionary reads as its DEFAULT_ value
SettingsChoices ==
    { [default_search_k |-> DEFAULT_SEARCH_K, max_result_chars |-> DEFAULT_MAX_RESULT_CHARS],
      [default_search_k |-> 60, max_result_chars |-> 3] }

Queries == {"q1", "q2"}

NoRequest == [op |-> "none"]

\* ------------------------------------------------------------- __init__
Init ==
    /\ settings \in SettingsChoices
    /\ all_tools = None
    /\ tool_map = None
    /\ active_tools = None
    /\ vector_store = None
    /\ pc = [q \in Queries |-> "idle"]
    /\ surfaced = [q \in Queries |-> {}]
    /\ returned = [q \in Queries |-> None]
    /\ last = NoRequest

\* {t.name: t for t in tools}: a later descriptor replaces an earlier one
\* of the same name
BuildToolMap(tools) ==
    [n \in {tools[i].name : i \in 1..Len(tools)} |->
        LET idx == {i \in 1..Len(tools) : tools[i].name = n}
            top == CHOOSE i \in idx : \A j \in idx : j <= i
        IN  tools[top]]

NoQueryRunning == \A q \in Queries : pc[q] # "running"

\* set_up: the index build either succeeds or fails, and a failure leaves
\* the index absent
SetUp(tools, built) ==
    /\ NoQueryRunning
    /\ all_tools' = Some(tools)
    /\ tool_map' = Some(BuildToolMap(tools))
    /\ active_tools' = Some(<<>>)
    /\ vector_store' = IF built THEN Some("Milvus") ELSE None
    /\ UNCHANGED <<settings, pc, surfaced, returned, last>>

\* ------------------------------------------------------------- _clamp_k
\* the k field of a request: absent, an integer, or a string
KNone   == [kind |-> "none"]
KInt(n) == [kind |-> "int", n |-> n]
KStr(s) == [kind |-> "str", s |-> s]

DigitValue(c) ==
    CASE c = "0" -> 0 [] c = "1" -> 1 [] c = "2" -> 2 [] c = "3" -> 3
      [] c = "4" -> 4 [] c = "5" -> 5 [] c = "6" -> 6 [] c = "7" -> 7
      [] c = "8" -> 8 [] c = "9" -> 9 [] OTHER -> -1

RECURSIVE DigitsValue(_)
DigitsValue(s) ==
    IF s = <<>> THEN 0
    ELSE 10 * DigitsValue(SubSeq(s, 1, Len(s) - 1)) + DigitValue(s[Len(s)])

\* int(k) succeeds on a string of decimal digits with optional surrounding
\* whitespace and raises ValueError on any other string of this model
IsNumeral(s) ==
    LET t == Strip(s) IN t # <<>> /\ \A i \in 1..Len(t) : DigitValue(t[i]) >= 0

\* int(k) if k is not None else default, default again on ValueError / TypeError
IntOrDefault(k, default) ==
    CASE k.kind = "none" -> default
      [] k.kind = "int"  -> k.n
      [] k.kind = "str"  -> IF IsNumeral(k.s) THEN DigitsValue(Strip(k.s)) ELSE default

\* _clamp_k without its lower limit
ClampUpperOnly(k, default) == Min(IntOrDefault(k, default), MAX_K)

_clamp_k(k, default) == Max(MIN_K, Min(IntOrDefault(k, default), MAX_K))

\* --------------------------------------------------------- _search_tools
Names(tools) == [i \in 1..Len(tools) |-> tools[i].name]

\* the outcome of similarity_search_with_score: it raises, or it returns
\* at most `limit` documents, each carrying a name in its metadata
IndexRaises == [raised |-> TRUE, hits |-> <<>>]
IndexHits(h) == [raised |-> FALSE, hits |-> h]

\* names the index may hold: the registry's, and one of a stale collection
IndexNames == {nWeb, nOld}

SeqsUpTo(S, n) == UNION {[1..m -> S] : m \in 0..n}

IndexOutcomes(limit) ==
    {IndexRaises} \cup {IndexHits(h) : h \in SeqsUpTo(IndexNames, Min(limit, MaxHits))}

\* hits taken as they come, a name the tool map does not hold included
ResolveHitsUnchecked(hits) ==
    [i \in 1..Len(hits) |->
        IF hits[i] \in DOMAIN tool_map.v THEN tool_map.v[hits[i]]
        ELSE Tool(hits[i], <<>>)]

\* lines 109-113: hits resolved through the tool map, unknown names dropped
ResolveHits(hits) ==
    LET known == SelectSeq(hits, LAMBDA n : n \in DOMAIN tool_map.v)
    IN  [i \in 1..Len(known) |-> tool_map.v[known[i]]]

\* line 125
Score(tool, q) ==
    (IF Contains(Lower(tool.name), q) THEN NAME_MATCH_WEIGHT ELSE 0)
    + (IF Contains(Lower(tool.description), q) THEN DESC_MATCH_WEIGHT ELSE 0)

\* the scored tools left in registry order, without the sort of line 129
ScoredUnsorted(tools, q) == SelectSeq(tools, LAMBDA t : Score(t, q) > 0)

\* ranked.sort(key=score, reverse=True): a stable sort, so tools of equal
\* score keep the order in which they were appended
SortByScoreDesc(tools, q) ==
    LET WithScore(s) == SelectSeq(tools, LAMBDA t : Score(t, q) = s)
    IN  WithScore(NAME_MATCH_WEIGHT + DESC_MATCH_WEIGHT)
        \o WithScore(NAME_MATCH_WEIGHT) \o WithScore(DESC_MATCH_WEIGHT)

\* the substring fallback without its last resort, the first `limit` tools
LexicalSearchNoLastResort(query, limit) ==
    Slice(SortByScoreDesc(all_tools.v, Lower(Strip(query))), limit)

\* lines 119-130: the substring fallback
LexicalSearch(query, limit) ==
    LET q == Lower(Strip(query))
        ranked == SortByScoreDesc(all_tools.v, q)
        top == Slice(ranked, limit)
    IN  IF top # <<>> THEN top ELSE Slice(all_tools.v, limit)

\* a search that answers a failed index query with no candidates
SearchToolsNoFallbackOnFailure(query, limit, vs) ==
    IF all_tools = None \/ all_tools.v = <<>> THEN <<>>
    ELSE IF vector_store # None /\ vs.raised THEN <<>>
    ELSE IF vector_store # None /\ ResolveHits(vs.hits) # <<>>
         THEN ResolveHits(vs.hits)
         ELSE LexicalSearch(query, limit)

\* lines 100-130; vs is the outcome of the index query, read only when the
\* index is present
_search_tools(query, limit, vs) ==
    IF all_tools = None \/ all_tools.v = <<>> THEN <<>>
    ELSE IF vector_store # None /\ ~vs.raised /\ ResolveHits(vs.hits) # <<>>
         THEN ResolveHits(vs.hits)
         ELSE LexicalSearch(query, limit)

\* ------------------------------------------------------- _handle_search
\* a merge that puts the new tools in front of the active ones
MergeMatchesInFront(active, matches) ==
    LET existing_names == Range(Names(active))
    IN  SelectSeq(matches, LAMBDA t : t.name \notin existing_names) \o active

\* lines 138-143: existing_names is computed once, before the loop
MergeMatches(active, matches) ==
    LET existing_names == Range(Names(active))
    IN  active \o SelectSeq(matches, LAMBDA t : t.name \notin existing_names)

\* a fetched list that names every candidate
NewlyAddedAllMatches(active, matches) == Names(matches)

\* lines 139-143: the names appended by the loop
NewlyAdded(active, matches) ==
    LET existing_names == Range(Names(active))
    IN  Names(SelectSeq(matches, LAMBDA t : t.name \notin existing_names))

SearchResponse(fetched, active) ==
    [mode |-> "search", fetched |-> fetched, active |-> Names(active)]

\* what a hub request leaves behind for inspection: the request, the
\* active list before and after it, and the response or the exception
Record(op, qid, req, after, resp, raised, more) ==
    [op |-> op, q |-> qid, req |-> req, pre |-> active_tools.v, post |-> after,
     resp |-> resp, raised |-> raised] @@ more

NoSearch == [limit |-> 0, matches |-> <<>>, index |-> "no", hits |-> <<>>]
NoCall   == [parsed |-> "no", log |-> "no", invoked |-> None]

\* lines 132-149, given the outcome vs of the index query: what a search
\* writes
SearchEffects(qid, req, vs) ==
    LET limit == _clamp_k(req.k, settings.default_search_k)
        matches == _search_tools(req.query, limit, vs)
        after == MergeMatches(active_tools.v, matches)
    IN  /\ active_tools' = Some(after)
        /\ surfaced' = [surfaced EXCEPT ![qid] = @ \cup Range(Names(matches))]
        /\ last' = Record("search", qid, req, after,
                          SearchResponse(NewlyAdded(active_tools.v, matches), after),
                          "no",
                          [limit |-> limit, matches |-> matches,
                           index |-> IF all_tools.v = <<>> THEN "unused"
                                     ELSE IF vector_store = None THEN "absent"
                                     ELSE IF vs.raised THEN "raised" ELSE "answered",
                           hits |-> IF vector_store = None THEN <<>> ELSE vs.hits]
                          @@ NoCall)

\* a search that builds the index again when it finds it absent
SearchWithRebuild(qid, req, vs) ==
    /\ SearchEffects(qid, req, vs)
    /\ vector_store' = Some("Milvus")
    /\ UNCHANGED <<settings, all_tools, tool_map, pc, returned>>

\* lines 132-149: a search writes nothing else, the index handle included
SearchWith(qid, req, vs) ==
    /\ SearchEffects(qid, req, vs)
    /\ UNCHANGED <<settings, all_tools, tool_map, vector_store, pc, returned>>

_handle_search(qid, req) ==
    IF vector_store = None \/ all_tools.v = <<>>
    THEN SearchWith(qid, req, IndexRaises)
    ELSE \E vs \in IndexOutcomes(_clamp_k(req.k, settings.default_search_k)) :
            SearchWith(qid, req, vs)

\* --------------------------------------------------------- _handle_call
\* tool_input texts a request may carry (opaque here: only json.loads
\* reads them)
InEmpty   == ""
InObject  == "{\"path\": \"/tmp/x\"}"
InGarbage == "{path"
InBigInt  == "a decimal literal of 5000 digits"
InDeep    == "100000 nested ["

ToolInputs == {InEmpty, InObject, InGarbage, InBigInt, InDeep}

\* json.loads on the texts above: a value, json.JSONDecodeError on text
\* that is no JSON document, ValueError on an integer literal longer than
\* the interpreter's integer-string limit, RecursionError on nesting deeper
\* than its recursion limit
JsonLoads(text) ==
    CASE text = InObject  -> "value"
      [] text = InGarbage -> "JSONDecodeError"
      [] text = InBigInt  -> "ValueError"
      [] text = InDeep    -> "RecursionError"

\* lines 159-162: the parsed value, the raw text, or the exception the
\* except clause does not name
ParseInput(text) ==
    IF text = InEmpty THEN [raised |-> "no", parsed |-> "raw"]
    ELSE CASE JsonLoads(text) = "value" -> [raised |-> "no", parsed |-> "json"]
           [] JsonLoads(text) = "JSONDecodeError" -> [raised |-> "no", parsed |-> "raw"]
           [] OTHER -> [raised |-> JsonLoads(text), parsed |-> "no"]

\* what tool.invoke may do: raise an exception carrying a message, or
\* return a value; str is str(result), json is json.dumps(result)
Raises(msg)       == [kind |-> "raise", str |-> msg, json |-> msg]
Returns(k, s, j)  == [kind |-> k, str |-> s, json |-> j]

InvokeOutcomes ==
    { Raises(<<"b", "o", "o", "m", "!">>),
      Returns("str",  <<"h", "e", "l", "l", "o">>, <<"\"", "h", "e", "l", "l", "o", "\"">>),
      Returns("dict", <<"{", "'", "a", "'", ":", " ", "1", "}">>,
                      <<"{", "\"", "a", "\"", ":", " ", "1", "}">>) }

\* line 174
Stringify(result) ==
    IF result.kind \in {"dict", "list"} THEN result.json ELSE result.str

\* _log_tool_usage: no log path, a line written, or a write that fails and
\* is swallowed
LogOutcomes == {"skipped", "written", "failed"}

\* the error text without the tool's name
NotFoundTextNameless(name) ==
    <<"t", "o", "o", "l", " ", "n", "o", "t", " ", "f", "o", "u", "n", "d">>

\* line 156
NotFoundText(name) ==
    <<"t", "o", "o", "l", " ", "'">> \o name
    \o <<"'", " ", "n", "o", "t", " ", "f", "o", "u", "n", "d">>

\* lines 164-166
RegisterTool(active, tool) ==
    IF tool.name \notin Range(Names(active)) THEN Append(active, tool) ELSE active

\* a call response that embeds the result whole
CallResponseUncut(tool, outcome) ==
    IF outcome.kind = "raise"
    THEN [mode |-> "call", tool |-> tool.name, error |-> outcome.str]
    ELSE [mode |-> "call", tool |-> tool.name, result |-> Stringify(outcome)]

\* lines 172-184
CallResponse(tool, outcome) ==
    IF outcome.kind = "raise"
    THEN [mode |-> "call", tool |-> tool.name, error |-> outcome.str]
    ELSE [mode |-> "call", tool |-> tool.name,
          result |-> Slice(Stringify(outcome), settings.max_result_chars)]

\* a hub request that changes no session state
Untouched(qid, req, op, resp, raised) ==
    /\ last' = Record(op, qid, req, active_tools.v, resp, raised, NoSearch @@ NoCall)
    /\ UNCHANGED <<settings, all_tools, tool_map, active_tools, vector_store,
                   pc, surfaced, returned>>

\* lines 164-184, given the outcomes of the usage log and of tool.invoke
CallWith(qid, req, tool, parsed, log, outcome) ==
    LET after == RegisterTool(active_tools.v, tool)
    IN  /\ active_tools' = Some(after)
        /\ surfaced' = [surfaced EXCEPT ![qid] = @ \cup {tool.name}]
        /\ last' = Record("call", qid, req, after, CallResponse(tool, outcome), "no",
                          [parsed |-> parsed, log |-> log,
                           invoked |-> Some([tool |-> tool.name, outcome |-> outcome])]
                          @@ NoSearch)
        /\ UNCHANGED <<settings, all_tools, tool_map, vector_store, pc, returned>>

\* lines 151-184; an exception that json.loads raises and line 161 does not
\* name leaves the handler before the tool is registered
_handle_call(qid, req) ==
    IF req.tool_name \notin DOMAIN tool_map.v
    THEN Untouched(qid, req, "call",
                   [mode |-> "call", error |-> NotFoundText(req.tool_name)], "no")
    ELSE LET input == ParseInput(req.tool_input)
         IN  IF input.raised # "no"
             THEN Untouched(qid, req, "call", [raised |-> input.raised], input.raised)
             ELSE \E log \in LogOutcomes, outcome \in InvokeOutcomes :
                    CallWith(qid, req, tool_map.v[req.tool_name], input.parsed,
                             log, outcome)

\* ------------------------------------------------------------- tool_hub
sSearch == <<"s", "e", "a", "r", "c", "h">>
sFind   == <<"f", "i", "n", "d">>
sFetch  == <<"f", "e", "t", "c", "h">>
sCall   == <<"c", "a", "l", "l">>

InvalidText ==
    <<"i", "n", "v", "a", "l", "i", "d", " ", "a", "c", "t", "i", "o", "n", ";", " ",
      "u", "s", "e", " ", "'", "s", "e", "a", "r", "c", "h", "'", " ", "o", "r", " ",
      "'", "c", "a", "l", "l", "'">>

\* routing on the action as sent, neither trimmed nor lower-cased
RouteRawAction(req) ==
    LET act == req.action
    IN  IF act \in {sSearch, sFind, sFetch} \/ (act = <<>> /\ req.query # <<>>)
        THEN "search"
        ELSE IF act = sCall \/ req.tool_name # <<>> THEN "call" ELSE "invalid"

\* lines 205-213: which branch of run a request takes
Route(req) ==
    LET act == Lower(Strip(req.action))
    IN  IF act \in {sSearch, sFind, sFetch} \/ (act = <<>> /\ req.query # <<>>)
        THEN "search"
        ELSE IF act = sCall \/ req.tool_name # <<>> THEN "call" ELSE "invalid"

Request(a, q, k, n, i) ==
    [action |-> a, query |-> q, k |-> k, tool_name |-> n, tool_input |-> i]

qWeb  == <<" ", "W", "E", "B", " ">>
qMail == <<"m", "a", "i", "l">>
qNone == <<"z", "z">>

\* the requests of an agent loop: one of each kind of search, call and
\* unrecognized action
Requests ==
    { Request(sSearch, qWeb, KNone, <<>>, InEmpty),
      Request(<<>>, qMail, KInt(1), <<>>, InEmpty),
      Request(sFetch, <<>>, KInt(2), <<>>, InEmpty),
      Request(sFind, qNone, KInt(51), <<>>, InEmpty),
      Request(sCall, <<>>, KNone, nWeb, InObject),
      Request(<<>>, <<>>, KNone, nRead, InGarbage),
      Request(sCall, <<>>, KNone, nRead, InEmpty),
      Request(sCall, <<>>, KNone, nZed, InObject),
      Request(sCall, <<>>, KNone, nWeb, InBigInt),
      Request(sCall, <<>>, KNone, nRead, InDeep),
      Request(<<"r", "u", "n">>, <<>>, KNone, <<>>, InEmpty) }

\* every combination of the fields that routing reads
Actions ==
    { <<>>, <<" ">>, sSearch, <<" ", "F", "i", "n", "d", " ">>, sFetch,
      <<"s", "e", "a", "r", "c", "h", "e", "s">>,
      sCall, <<"C", "A", "L", "L", " ">>, <<"r", "u", "n">> }

RoutingRequests ==
    { Request(a, q, KNone, n, InEmpty) :
        a \in Actions, q \in {<<>>, <<" ">>, qMail}, n \in {<<>>, nRead, nZed} }

\* searches over the values k may take
Ks ==
    { KNone, KInt(-3), KInt(0), KInt(1), KInt(2), KInt(50), KInt(51),
      KStr(<<" ", "7">>), KStr(<<"9", "9">>), KStr(<<"a", "b", "c">>) }

ClampRequests == { Request(sSearch, qWeb, k, <<>>, InEmpty) : k \in Ks }

\* run: one tool_hub request of the agent loop of query qid; the loop sends
\* a request once it has taken the response to the one before
run(qid, req) ==
    /\ pc[qid] = "running"
    /\ last = NoRequest
    /\ CASE Route(req) = "search" -> _handle_search(qid, req)
         [] Route(req) = "call"   -> _handle_call(qid, req)
         [] OTHER -> Untouched(qid, req, "invalid", [error |-> InvalidText], "no")

\* the agent loop takes the response (or the exception) of its request
TakeResponse ==
    /\ last # NoRequest
    /\ last' = NoRequest
    /\ UNCHANGED <<settings, all_tools, tool_map, active_tools, vector_store,
                   pc, surfaced, returned>>

\* -------------------------------------------------------- process_query
\* bookkeeping of the caller: results of finished queries are dropped when
\* a query starts
Forget(qid, f, fresh) ==
    [p \in Queries |-> IF p = qid \/ pc[p] # "running" THEN fresh ELSE f[p]]

Started(qid, to) ==
    [p \in Queries |->
        IF p = qid THEN to ELSE IF pc[p] = "running" THEN pc[p] ELSE "idle"]

\* process_query with the reset of line 233 ahead of the check of line 229
process_query_resets_first(qid) ==
    /\ pc[qid] # "running"
    /\ all_tools = None
    /\ active_tools' = Some(<<>>)
    /\ pc' = [pc EXCEPT ![qid] = "rejected"]
    /\ surfaced' = [surfaced EXCEPT ![qid] = {}]
    /\ returned' = [returned EXCEPT ![qid] = None]
    /\ UNCHANGED <<settings, all_tools, tool_map, vector_store, last>>

\* lines 229-230: RuntimeError before set_up; nothing is returned and the
\* caller's record of the other queries stays as it is
process_query_rejected(qid) ==
    /\ pc[qid] # "running"
    /\ all_tools = None
    /\ pc' = [pc EXCEPT ![qid] = "rejected"]
    /\ surfaced' = [surfaced EXCEPT ![qid] = {}]
    /\ returned' = [returned EXCEPT ![qid] = None]
    /\ UNCHANGED <<settings, all_tools, tool_map, active_tools, vector_store, last>>

\* the active list carried over from the query before
ActiveKept == active_tools

\* line 233: self._active_tools = []
FreshActive == Some(<<>>)

\* lines 229-241: up to the point where the agent loop is awaited
process_query_begin(qid) ==
    /\ pc[qid] # "running"
    /\ all_tools # None
    /\ active_tools' = FreshActive
    /\ pc' = Started(qid, "running")
    /\ surfaced' = Forget(qid, surfaced, {})
    /\ returned' = Forget(qid, returned, None)
    /\ UNCHANGED <<settings, all_tools, tool_map, vector_store, last>>

\* the same lines, for a caller that keeps what the queries before returned
process_query_next(qid) ==
    /\ pc[qid] # "running"
    /\ all_tools # None
    /\ active_tools' = FreshActive
    /\ pc' = [pc EXCEPT ![qid] = "running"]
    /\ surfaced' = [surfaced EXCEPT ![qid] = {}]
    /\ returned' = [returned EXCEPT ![qid] = None]
    /\ UNCHANGED <<settings, all_tools, tool_map, vector_store, last>>

\* lines 243-245: the agent loop has answered
process_query_end(qid) ==
    /\ pc[qid] = "running"
    /\ last = NoRequest
    /\ pc' = [pc EXCEPT ![qid] = "done"]
    /\ returned' = [returned EXCEPT ![qid] = Some(Names(active_tools.v))]
    /\ UNCHANGED <<settings, all_tools, tool_map, active_tools, vector_store,
                   surfaced, last>>

\* lines 247-253
tear_down ==
    /\ NoQueryRunning
    /\ all_tools # None
    /\ all_tools' = None
    /\ tool_map' = None
    /\ active_tools' = None
    /\ vector_store' = None
    /\ UNCHANGED <<settings, pc, surfaced, returned, last>>

\* --------------------------------------------------------- specifications
\* the evaluation harness: one query at a time
StartAlone == NoQueryRunning /\ process_query_begin("q1")

\* a caller that overlaps queries: a second process_query starts while the
\* first is suspended in its agent loop
StartOverlapping == pc["q1"] = "running" /\ process_query_begin("q2")

\* a session over the tool lists `lists`, its agent loops sending `reqs`
Session(lists, reqs) ==
    \/ \E tools \in lists, built \in BOOLEAN : SetUp(tools, built)
    \/ tear_down
    \/ \E qid \in Queries : process_query_rejected(qid)
    \/ StartAlone
    \/ \E qid \in Queries : process_query_end(qid)
    \/ \E qid \in Queries, req \in reqs : run(qid, req)
    \/ TakeResponse

Next == Session(ToolLists, Requests)

Spec == Init /\ [][Next]_vars

\* routing, over every combination of action, query and tool_name
NextRouting == Session(ToolLists, RoutingRequests)

SpecRouting == Init /\ [][NextRouting]_vars

\* clamping, over the values of k and of default_search_k
NextClamp == Session(ToolLists, ClampRequests)

SpecClamp == Init /\ [][NextClamp]_vars

\* queries one after another on one session: the second starts when the
\* first has returned
StartNext == pc["q1"] = "done" /\ NoQueryRunning /\ process_query_next("q2")

SuccessiveRequests ==
    { Request(sSearch, qMail, KInt(1), <<>>, InEmpty),
      Request(sFetch, <<>>, KInt(2), <<>>, InEmpty),
      Request(sCall, <<>>, KNone, nRead, InObject) }

NextSuccessive ==
    \/ Session(ToolLists, SuccessiveRequests)
    \/ StartNext

SpecSuccessive == Init /\ [][NextSuccessive]_vars

\* the substring fallback, over registries, queries and limits that make
\* every score, ties and the last resort happen
LexicalLists == ToolLists \cup { <<tMail, tRead, tWeb2, tWeb>> }

LexicalQueries ==
    { <<>>, qWeb, qNone, <<"A">>, <<"e">>, <<" ", "g", "e">> }

LexicalRequests ==
    { Request(sSearch, q, k, <<>>, InEmpty) :
        q \in LexicalQueries, k \in {KNone, KInt(1), KInt(2)} }

NextLexical == Session(LexicalLists, LexicalRequests)

SpecLexical == Init /\ [][NextLexical]_vars

\* overlapping queries on one session
OverlapRequests ==
    { Request(sSearch, qMail, KInt(1), <<>>, InEmpty),
      Request(sCall, <<>>, KNone, nRead, InEmpty),
      Request(sCall, <<>>, KNone, nZed, InEmpty) }

NextConcurrent ==
    \/ Session(ToolLists, OverlapRequests)
    \/ StartOverlapping

SpecConcurrent == Init /\ [][NextConcurrent]_vars

\* ------------------------------------------------------------------ claims
NoDuplicates(s) == \A i, j \in 1..Len(s) : i # j => s[i] # s[j]

RegistryNames == {all_tools.v[i].name : i \in 1..Len(all_tools.v)}

Handled == last # NoRequest

\* C1: no tool name appears more than once in the active list, and none
\* more than once in a fetched list, whatever candidates a search is handed
\* (stated as claimed; the merge loop of _handle_search refutes it)
C1_ActiveAndFetchedUnique ==
    /\ active_tools # None => NoDuplicates(Names(active_tools.v))
    /\ (Handled /\ last.op = "search") => NoDuplicates(last.resp.fetched)

\* C2: the list process_query returns for a query holds exactly the tools
\* that query's own hub requests surfaced, also when another query overlaps
\* it (stated as claimed; the shared _active_tools refutes it)
C2_OwnActiveSetPerQuery ==
    \A q \in Queries :
        pc[q] = "done" => Range(returned[q].v) = surfaced[q]

\* C3: a call naming no registry tool answers {mode: "call", error:
\* "tool '<name>' not found"}, leaves the active list as it was, invokes no
\* tool and logs no usage
C3_UnknownToolCall ==
    (Handled /\ last.op = "call" /\ last.req.tool_name \notin RegistryNames) =>
        /\ last.raised = "no"
        /\ last.resp = [mode |-> "call",
                        error |-> <<"t", "o", "o", "l", " ", "'">>
                                  \o last.req.tool_name
                                  \o <<"'", " ", "n", "o", "t", " ",
                                       "f", "o", "u", "n", "d">>]
        /\ last.post = last.pre
        /\ active_tools.v = last.pre
        /\ last.invoked = None
        /\ last.log = "no"

\* C3 witness: an unknown tool is called while the active list is not empty
C3_Witness ==
    /\ Handled /\ last.op = "call"
    /\ last.req.tool_name = nZed
    /\ last.pre # <<>>

\* C4: every hub request resolves to a JSON response, none raises to the
\* agent loop (stated as claimed; the json.loads exceptions that line 161
\* does not catch refute it)
C4_EveryRequestAnswered ==
    Handled =>
        /\ last.raised = "no"
        /\ \/ "mode" \in DOMAIN last.resp
           \/ "error" \in DOMAIN last.resp

\* C5: with a non-empty registry every search obtains a non-empty candidate
\* list and leaves the active list non-empty
C5_SearchNeverEmpty ==
    (Handled /\ last.op = "search" /\ all_tools.v # <<>>) =>
        /\ last.matches # <<>>
        /\ last.post # <<>>
        /\ active_tools.v # <<>>
        /\ last.resp.active # <<>>

\* C5 witness: the index answers with a name the registry does not know,
\* the query matches no tool, and the active list was empty before
C5_Witness ==
    /\ Handled /\ last.op = "search"
    /\ last.index = "answered" /\ last.hits = <<nOld>>
    /\ last.req.query = qNone
    /\ last.pre = <<>>
    /\ last.post # <<>>

\* the limit [1, 50] applied to a number
Clamped(n) == IF n < 1 THEN 1 ELSE IF n > 50 THEN 50 ELSE n

\* k as a number, when it is one: an integer, or a string int() converts
IsNumeric(k) == k.kind = "int" \/ (k.kind = "str" /\ IsNumeral(k.s))
NumberOf(k) == IF k.kind = "int" THEN k.n ELSE DigitsValue(Strip(k.s))

\* C6, as claimed: the limit of a search is k clamped into [1, 50] when k
\* is numeric, and the configured default_search_k itself when k is absent
\* or not numeric (line 98 clamps the default too, which refutes it)
C6_LimitIsClampOrDefault ==
    (Handled /\ last.op = "search") =>
        last.limit = IF IsNumeric(last.req.k) THEN Clamped(NumberOf(last.req.k))
                     ELSE settings.default_search_k

\* C6, amended: the limit of a search is k clamped into [1, 50] when k is
\* numeric, and default_search_k clamped into [1, 50] when k is absent or
\* not numeric
C6_LimitIsClampOfKOrDefault ==
    (Handled /\ last.op = "search") =>
        last.limit = IF IsNumeric(last.req.k) THEN Clamped(NumberOf(last.req.k))
                     ELSE Clamped(settings.default_search_k)

\* C6 witness: k is absent, the configured default is 60, the limit is 50
C6_Witness ==
    /\ Handled /\ last.op = "search"
    /\ last.req.k = KNone
    /\ settings.default_search_k = 60
    /\ last.limit = 50

\* the branch the routing rule prescribes for a request
PrescribedRoute(req) ==
    LET act == Lower(Strip(req.action))
        isSearch == \/ act \in {sSearch, sFind, sFetch}
                    \/ (act = <<>> /\ Len(req.query) > 0)
        isCall == act = sCall \/ Len(req.tool_name) > 0
    IN  CASE isSearch -> "search"
          [] ~isSearch /\ isCall -> "call"
          [] OTHER -> "invalid"

\* C7: each request is handled by the branch the routing rule prescribes;
\* a search answers with mode "search", a call with mode "call", anything
\* else with a top-level error and no change of state
C7_RoutingTotalAndOrdered ==
    Handled =>
        /\ last.op = PrescribedRoute(last.req)
        /\ last.raised = "no"
        /\ last.op = "search" => last.resp.mode = "search"
        /\ last.op = "call" => last.resp.mode = "call"
        /\ last.op = "invalid" =>
              /\ DOMAIN last.resp = {"error"}
              /\ last.post = last.pre
              /\ active_tools.v = last.pre

\* C7 witness: a blank action with a blank query and a tool name is a
\* search, not a call
C7_Witness ==
    /\ Handled
    /\ last.req.action = <<" ">> /\ last.req.query = <<" ">>
    /\ last.req.tool_name = nRead
    /\ last.op = "search"

\* C8: fetched lists, in candidate order, exactly the names that are
\* active after the search and were not before; active in the response is
\* the whole active list after the merge
C8_FetchedIsTheNewNames ==
    (Handled /\ last.op = "search") =>
        LET before == Range(Names(last.pre))
            after  == Range(Names(last.post))
        IN  /\ Range(last.resp.fetched) = after \ before
            /\ last.resp.fetched =
                 SelectSeq(Names(last.matches), LAMBDA n : n \in after \ before)
            /\ last.resp.active = Names(last.post)
            /\ active_tools.v = last.post
            /\ \A i \in 1..Len(last.resp.fetched) : last.resp.fetched[i] \notin before

\* C8 witness: a search with a candidate that was active already and one
\* that is new
C8_Witness ==
    /\ Handled /\ last.op = "search"
    /\ last.resp.fetched # <<>>
    /\ \E i \in 1..Len(last.matches) :
          last.matches[i].name \in Range(Names(last.pre))

\* C9: a call naming a registered tool leaves that tool in the active list
\* and in the list process_query returns (stated as claimed; the call that
\* leaves on an uncaught json.loads exception, see C4, refutes it)
C9_CallRegistersTool ==
    /\ (Handled /\ last.op = "call" /\ last.req.tool_name \in RegistryNames) =>
          /\ last.req.tool_name \in Range(Names(active_tools.v))
          /\ last.req.tool_name \in surfaced[last.q]
    /\ \A q \in Queries :
          pc[q] = "done" => surfaced[q] \subseteq Range(returned[q].v)

\* C10: the result of a successful call is the stringified tool result cut
\* to its first max_result_chars characters
C10_ResultCutToMaxChars ==
    (Handled /\ last.op = "call" /\ last.raised = "no"
       /\ "result" \in DOMAIN last.resp) =>
        LET outcome == last.invoked.v.outcome
            text == IF outcome.kind \in {"dict", "list"} THEN outcome.json
                    ELSE outcome.str
            max == settings.max_result_chars
            result == last.resp.result
        IN  /\ Len(result) = IF Len(text) <= max THEN Len(text) ELSE max
            /\ \A i \in 1..Len(result) : result[i] = text[i]
            /\ Len(text) <= max => result = text

\* C10 witness: a result of eight characters comes back as its first three
C10_Witness ==
    /\ Handled /\ last.op = "call" /\ "result" \in DOMAIN last.resp
    /\ settings.max_result_chars = 3
    /\ Len(last.invoked.v.outcome.json) = 8
    /\ last.resp.result = <<"{", "\"", "a">>

\* the session-scoped fields of the algorithm
SessionFields == <<all_tools, tool_map, active_tools, vector_store>>

\* C11: while the session is not set up (never set up, or torn down and not
\* set up again) no field of the session holds a value, process_query can
\* only fail, its failure changes no session field, and only set_up leaves
\* that condition; once set up, a query can be started
C11_NotSetUpRejectsQueries ==
    /\ [](all_tools = None =>
            /\ tool_map = None /\ active_tools = None /\ vector_store = None
            /\ \A q \in Queries : pc[q] # "running"
            /\ \A q \in Queries : ENABLED process_query_rejected(q))
    /\ [](all_tools # None =>
            \A q \in Queries : pc[q] # "running" => ENABLED process_query_begin(q))
    /\ [][all_tools = None =>
            \/ /\ all_tools' # None /\ active_tools' = Some(<<>>)
               /\ pc' = pc /\ returned' = returned
            \/ /\ SessionFields' = SessionFields
               /\ \A q \in Queries :
                     \/ pc'[q] = pc[q] /\ returned'[q] = returned[q]
                     \/ pc'[q] = "rejected" /\ returned'[q] = None]_vars

\* C11 witness: a query was processed, the session was torn down, and the
\* next process_query was rejected
C11_Witness ==
    /\ all_tools = None
    /\ pc["q1"] = "done"
    /\ pc["q2"] = "rejected"

\* the reference ranking: 2 for the name, 1 for the description
RefScore(tool, q) ==
    (IF Contains(Lower(tool.name), q) THEN 2 ELSE 0)
    + (IF Contains(Lower(tool.description), q) THEN 1 ELSE 0)

\* the tools of score above 0, by score descending, ties in registry order,
\* cut to limit; the first limit tools of the registry if that is empty
RefLexical(tools, query, limit) ==
    LET q == Lower(Strip(query))
        scored == {i \in 1..Len(tools) : RefScore(tools[i], q) > 0}
        Before(i, j) ==
            \/ RefScore(tools[i], q) > RefScore(tools[j], q)
            \/ RefScore(tools[i], q) = RefScore(tools[j], q) /\ i < j
        rank(i) == Cardinality({j \in scored : Before(j, i)}) + 1
        n == IF Cardinality(scored) < limit THEN Cardinality(scored) ELSE limit
        top == [r \in 1..n |-> tools[CHOOSE i \in scored : rank(i) = r]]
    IN  IF top # <<>> THEN top
        ELSE [r \in 1..(IF Len(tools) < limit THEN Len(tools) ELSE limit) |-> tools[r]]

\* the search was answered by the substring fallback: the index is absent,
\* its query raised, or none of its hits is a registry name
LexicalUsed ==
    /\ Handled /\ last.op = "search"
    /\ last.index \in {"absent", "raised", "answered"}
    /\ \A i \in 1..Len(last.hits) : last.hits[i] \notin RegistryNames

\* C12: the candidates of the substring fallback are the reference ranking
\* of the registry for the request's query and limit, and in them a tool
\* matched by name only stands before a tool matched by description only
C12_LexicalRankingIsReference ==
    LexicalUsed =>
        LET q == Lower(Strip(last.req.query))
            m == last.matches
        IN  /\ m = RefLexical(all_tools.v, last.req.query, last.limit)
            /\ \A i, j \in 1..Len(m) :
                  (RefScore(m[i], q) = 2 /\ RefScore(m[j], q) = 1) => i < j

\* C12 witness: a tool matched by description only stands before two tools
\* matched by name in the registry and after them in the candidates
C12_Witness ==
    /\ LexicalUsed
    /\ all_tools.v = <<tRead, tWeb, tMail>>
    /\ last.req.query = qWeb
    /\ last.matches = <<tWeb, tRead>>

\* C13: a query starts with an empty active list, and the list it returns
\* names only tools its own search and call requests surfaced, none that
\* only an earlier query of the session surfaced
C13_QueryStartsEmpty ==
    /\ [](\A q \in Queries :
            pc[q] = "done" => Range(returned[q].v) \subseteq surfaced[q])
    /\ [][\A q \in Queries :
            (pc[q] # "running" /\ pc'[q] = "running") =>
                active_tools' = Some(<<>>)]_vars

\* C13 witness: the first query returned Mail, the second ran on the same
\* session, surfaced another tool and returned a list without Mail
C13_Witness ==
    /\ pc["q1"] = "done" /\ pc["q2"] = "done"
    /\ nMail \in Range(returned["q1"].v)
    /\ returned["q2"].v # <<>>
    /\ nMail \notin Range(returned["q2"].v)

IsPrefix(s, t) == Len(s) <= Len(t) /\ \A i \in 1..Len(s) : s[i] = t[i]

\* C14: for every hub request (search, call of a known or unknown tool,
\* unrecognized action) the active list before it is a prefix of the active
\* list after it, and no step taken while a query runs removes or moves an
\* entry of the active list
C14_ActiveOnlyGrows ==
    /\ [](Handled => /\ IsPrefix(last.pre, last.post)
                      /\ active_tools.v = last.post)
    /\ [][((\E q \in Queries : pc[q] = "running") /\ pc' = pc) =>
            /\ active_tools' # None
            /\ IsPrefix(active_tools.v, active_tools'.v)]_vars

\* C14 witness: a search that finds the active list non-empty and adds to it
C14_Witness ==
    /\ Handled /\ last.op = "search"
    /\ last.pre # <<>>
    /\ Len(last.post) > Len(last.pre)

\* C15: set_up completes whether or not the index was built; an absent
\* index stays absent until set_up runs again (no hub request, no start or
\* end of a query builds it), and while it is absent every search is
\* answered by the substring fallback without an index query
C15_AbsentIndexStaysAbsent ==
    /\ []((all_tools # None /\ vector_store = None) =>
            /\ tool_map # None /\ active_tools # None
            /\ (Handled /\ last.op = "search" /\ all_tools.v # <<>>) =>
                  /\ last.index = "absent" /\ last.hits = <<>>
                  /\ last.raised = "no"
                  /\ last.matches =
                        RefLexical(all_tools.v, last.req.query, last.limit))
    /\ [][(vector_store = None /\ vector_store' # None) =>
            /\ \A q \in Queries : pc[q] # "running"
            /\ pc' = pc /\ last' = last
            /\ all_tools' # None /\ active_tools' = Some(<<>>)]_vars

\* C15 witness: the index is absent and a search later in a query, after
\* other requests have filled the active list, is answered by the fallback
C15_Witness ==
    /\ all_tools # None /\ vector_store = None
    /\ Handled /\ last.op = "search" /\ last.index = "absent"
    /\ last.pre # <<>>
    /\ last.matches # <<>>

\* the limit of the request just handled, from its k and the settings
LimitOf(req) ==
    IF IsNumeric(req.k) THEN Clamped(NumberOf(req.k))
    ELSE Clamped(settings.default_search_k)

\* C16: a search whose index query raises is answered, by the substring
\* fallback at the request's clamped limit, and leaves the index built; the
\* index handle is dropped by no hub request; and every search made while
\* the index is built queries it, taking the hits that are registry names
\* when there are any and the substring fallback otherwise
C16_IndexFailureIsPerRequest ==
    /\ []((Handled /\ last.op = "search" /\ last.index = "raised") =>
            /\ last.raised = "no"
            /\ vector_store # None
            /\ last.limit = LimitOf(last.req)
            /\ last.matches =
                  RefLexical(all_tools.v, last.req.query, LimitOf(last.req)))
    /\ []((Handled /\ last.op = "search" /\ vector_store # None
            /\ all_tools.v # <<>>) =>
            LET known == SelectSeq(last.hits, LAMBDA n : n \in RegistryNames)
            IN  /\ last.index \in {"raised", "answered"}
                /\ Len(last.hits) <= last.limit
                /\ known # <<>> => Names(last.matches) = known
                /\ known = <<>> =>
                      last.matches =
                        RefLexical(all_tools.v, last.req.query, last.limit))
    /\ [][(vector_store # None /\ vector_store' # vector_store) =>
            /\ \A q \in Queries : pc[q] # "running"
            /\ pc' = pc /\ last' = last]_vars

\* C16 witness: inside a query that has surfaced tools already, a search
\* whose index query raised was answered and the index is still built
C16_Witness ==
    /\ Handled /\ last.op = "search" /\ last.index = "raised"
    /\ vector_store # None
    /\ last.pre # <<>>
    /\ last.matches # <<>>

\* C17: every name in the active list, in the candidates and the fetched
\* and active lists of a search response, and in the list process_query
\* returns is a name of the registry; a call adds no name but the one it
\* looked up in the registry
C17_OnlyRegistryNames ==
    /\ []((all_tools # None /\ active_tools # None) =>
            Range(Names(active_tools.v)) \subseteq RegistryNames)
    /\ []((Handled /\ last.op = "search") =>
            /\ Range(Names(last.matches)) \subseteq RegistryNames
            /\ Range(last.resp.fetched) \subseteq RegistryNames
            /\ Range(last.resp.active) \subseteq RegistryNames)
    /\ []((Handled /\ last.op = "call") =>
            Range(Names(last.post)) \ Range(Names(last.pre))
                \subseteq ({last.req.tool_name} \cap RegistryNames))
    /\ [][\A q \in Queries :
            (pc[q] = "running" /\ pc'[q] = "done") =>
                Range(returned'[q].v) \subseteq RegistryNames]_vars

\* C17 witness: the index answers with a name the registry does not hold
\* and one it holds, and only the second is fetched
C17_Witness ==
    /\ Handled /\ last.op = "search" /\ last.index = "answered"
    /\ last.hits = <<nOld, nWeb>>
    /\ last.resp.fetched = <<nWeb>>

\* C18: a call of a registered tool hands its usage event to the log and
\* then invokes that tool, once, whether the invocation returns or raises;
\* a search, a call of an unknown tool and an unrecognized action invoke
\* nothing and log nothing. With one invocation for each such call and
\* none otherwise, the invocations of a tool number the calls that named it
\* (stated as claimed; the call that leaves on an uncaught json.loads
\* exception, see C4, invokes nothing and refutes it)
C18_OneInvocationPerCall ==
    Handled =>
        IF last.op = "call" /\ last.req.tool_name \in RegistryNames
        THEN /\ last.invoked # None
             /\ last.invoked.v.tool = last.req.tool_name
             /\ last.log \in {"skipped", "written", "failed"}
        ELSE /\ last.invoked = None
             /\ last.log = "no"

\* C19: in the response to a call of a registered tool the text the tool
\* produced has at most max_result_chars characters, the result of an
\* invocation that returned and the error of one that raised alike
\* (stated as claimed; line 177 embeds str(e) whole, which refutes it)
C19_ToolTextBounded ==
    (Handled /\ last.op = "call" /\ last.raised = "no"
       /\ last.req.tool_name \in RegistryNames) =>
        /\ "result" \in DOMAIN last.resp =>
              Len(last.resp.result) <= settings.max_result_chars
        /\ "error" \in DOMAIN last.resp =>
              Len(last.resp.error) <= settings.max_result_chars
====
